---- MODULE Spec2Model ----
(***************************************************************************)
(* Model of hta/analyzers/breakdown_analysis.py (class BreakdownAnalysis). *)
(*                                                                         *)
(* A pandas DataFrame is a sequence of records (one record per row, one    *)
(* field per column).  Fractions (mean, squared std) are kept exact as the *)
(* pair <<numerator, denominator>>; NaN is the pair <<0, 0>>; a quantile   *)
(* is carried multiplied by 100.                                           *)
(***************************************************************************)
EXTENDS Integers, Sequences, FiniteSets, TLC

VARIABLES
    \* ---- _aggr_gpu_kernel_time ----
    aggr_pc,            \* "call" before the call, "done" after the return
    aggr_args,          \* the arguments of the call
    aggr_sorted,        \* gpu_kernel_time after line 595 (grouped, sorted)
    aggr_renamed,       \* gpu_kernel_time after line 615 (names rewritten)
    gpu_kernel_time,    \* the returned dataframe
    \* ---- _get_gpu_kernel_type_time ----
    ov_pc,              \* "call", then "done" or the exception raised
    ov_args,            \* the arguments of the call
    ov_merged,          \* kernel_t_df of each kernel type (line 509)
    ov_sweep,           \* overlap_kernel_type_df after line 527
    overlap_kernel_type_df, \* the returned dataframe
    \* ---- get_temporal_breakdown ----
    tb_pc,              \* "loop", then "done" or the exception raised
    traces,             \* t.traces, as the (rank, trace_df) items in dict order
    tb_i,               \* number of items of t.traces the loop has taken
    result,             \* the dict of lists of line 689, one record per rank
    result_df,          \* the returned dataframe
    \* ---- _analyze_idle_time_for_stream ----
    idle_pc,            \* "call" before the call, "done" after the return
    idle_args,          \* the arguments of the call
    gpu_kernels_s,      \* the stream's kernels with their idle columns
    idle_result,        \* the returned breakdown (result)
    \* ---- get_gpu_kernels_with_user_annotations ----
    anno_pc,            \* "call" before the call, "done" after the return
    anno_sym,           \* the keys of t.symbol_table.get_sym_id_map()
    anno_trace,         \* t.get_trace(rank), the Trace's table of the rank
    gpu_user_anno_df,   \* the annotations in the order they are processed
    anno_result,        \* the returned value: None or gpu_kernels_df
    \* ---- get_gpu_user_annotation_breakdown ----
    uab_pc,             \* "loop", then "done"
    uab_args,           \* t (symbol table, traces) and the arguments
    uab_i,              \* number of items of t.traces the loop has taken
    kernel_per_rank,    \* the (rank, gpu_kernel_time) items of line 418
    all_kernel_df,      \* all_kernel_df (lines 387, 421-426)
    uab_result,         \* the returned value: None or all_kernel_df
    \* ---- _get_idle_time_for_kernels ----
    merge_pc,           \* "call", then "done" or the exception raised
    merge_kernels_df,   \* the argument kernels_df
    merge_merged,       \* merge_kernel_intervals(kernels_df) (line 635)
    merge_result        \* the returned (idle_time, kernel_time)

aggr_vars == <<aggr_pc, aggr_args, aggr_sorted, aggr_renamed, gpu_kernel_time>>
ov_vars == <<ov_pc, ov_args, ov_merged, ov_sweep, overlap_kernel_type_df>>

tb_vars == <<tb_pc, traces, tb_i, result, result_df>>
idle_vars == <<idle_pc, idle_args, gpu_kernels_s, idle_result>>
anno_vars == <<anno_pc, anno_sym, anno_trace, gpu_user_anno_df, anno_result>>
uab_vars == <<uab_pc, uab_args, uab_i, kernel_per_rank, all_kernel_df, uab_result>>
merge_vars == <<merge_pc, merge_kernels_df, merge_merged, merge_result>>

vars == <<aggr_pc, aggr_args, aggr_sorted, aggr_renamed, gpu_kernel_time,
          ov_pc, ov_args, ov_merged, ov_sweep, overlap_kernel_type_df,
          tb_pc, traces, tb_i, result, result_df,
          idle_pc, idle_args, gpu_kernels_s, idle_result,
          anno_pc, anno_sym, anno_trace, gpu_user_anno_df, anno_result,
          uab_pc, uab_args, uab_i, kernel_per_rank, all_kernel_df, uab_result,
          merge_pc, merge_kernels_df, merge_merged, merge_result>>

\* a fraction is the pair <<numerator, denominator>>; NaN is 0/0
NaN == <<0, 0>>
\* Optional[List[str]]: None, or the set of the names in the list
None == [is_none |-> TRUE, names |-> {}]
Some(names) == [is_none |-> FALSE, names |-> names]

(***************************************************************************)
(* Generic helpers on sequences of integers.                               *)
(***************************************************************************)
RECURSIVE SeqSum(_)
SeqSum(s) == IF s = <<>> THEN 0 ELSE Head(s) + SeqSum(Tail(s))

RECURSIVE SeqMax(_)
SeqMax(s) ==
    IF Len(s) = 1 THEN s[1]
    ELSE LET m == SeqMax(Tail(s)) IN IF s[1] >= m THEN s[1] ELSE m

RECURSIVE SeqMin(_)
SeqMin(s) ==
    IF Len(s) = 1 THEN s[1]
    ELSE LET m == SeqMin(Tail(s)) IN IF s[1] <= m THEN s[1] ELSE m

SumSq(s) == SeqSum([i \in 1..Len(s) |-> s[i] * s[i]])

Column(df, c) == [i \in 1..Len(df) |-> df[i][c]]

Perms(n) == {p \in [1..n -> 1..n] : \A i, j \in 1..n : p[i] = p[j] => i = j}

\* ascending insertion sort of a sequence of integers
RECURSIVE Insert(_, _)
Insert(x, s) ==
    IF s = <<>> THEN <<x>>
    ELSE IF x <= Head(s) THEN <<x>> \o s
    ELSE <<Head(s)>> \o Insert(x, Tail(s))

RECURSIVE SortAsc(_)
SortAsc(s) == IF s = <<>> THEN <<>> ELSE Insert(Head(s), SortAsc(Tail(s)))

\* the elements of a finite set of integers, in ascending order
RECURSIVE SetToSortedSeq(_)
SetToSortedSeq(S) ==
    IF S = {} THEN <<>>
    ELSE LET m == CHOOSE x \in S : \A y \in S : x <= y
         IN <<m>> \o SetToSortedSeq(S \ {m})

(***************************************************************************)
(* _aggr_gpu_kernel_time                                                   *)
(***************************************************************************)
MaxDur == 1             \* largest duration of one sample
MaxRows == 4            \* most rows of the input dataframe
MaxNumKernels == 2      \* largest num_kernels argument

\* kernel / annotation names, in the (lexicographic) order groupby sorts them
NameOrder == <<"add", "gemm", "nccl", "others">>
InputNames == {"add", "gemm", "nccl"}

\* duration_ratio, in percent
DurationRatios == {0, 80, 100}

\* AggStats with the sum column taken from the largest value (mutant)
AggStats_SumOfLargest(vals) ==
    LET n == Len(vals)
        s == SeqSum(vals)
    IN [sum  |-> SeqMax(vals),
        max  |-> SeqMax(vals),
        min  |-> SeqMin(vals),
        mean |-> <<s, n>>,
        std  |-> IF n = 1 THEN NaN ELSE <<n * SumSq(vals) - s * s, n * (n - 1)>>]

\* pandas DataFrame.groupby(by=["name"])[col].agg(["sum","max","min","mean","std"])
\* std is the sample standard deviation (ddof=1); it is carried squared, as
\* the pair <<numerator, denominator>>, and is NaN for a group of one row.
AggStats(vals) ==
    LET n == Len(vals)
        s == SeqSum(vals)
    IN [sum  |-> s,
        max  |-> SeqMax(vals),
        min  |-> SeqMin(vals),
        mean |-> <<s, n>>,
        std  |-> IF n = 1 THEN NaN ELSE <<n * SumSq(vals) - s * s, n * (n - 1)>>]

GroupByName(df, col) ==
    LET present == {df[i].name : i \in 1..Len(df)}
        keys == SelectSeq(NameOrder, LAMBDA n : n \in present)
        valsOf(n) == Column(SelectSeq(df, LAMBDA r : r.name = n), col)
    IN [k \in 1..Len(keys) |->
            [name |-> keys[k]] @@ AggStats(valsOf(keys[k]))]

\* DataFrame.fillna({"std": 0})
FillnaStd(df) ==
    [i \in 1..Len(df) |->
        IF df[i].std = NaN THEN [df[i] EXCEPT !.std = <<0, 1>>] ELSE df[i]]

\* the orders sort_values(by=["sum"], ascending=False) may produce: the sort
\* is not a stable one, rows of equal sum come out in any order
SortedBySumDesc(df) ==
    {[i \in 1..Len(df) |-> df[p[i]]] : p \in
        {q \in Perms(Len(df)) :
            \A i \in 1..(Len(df) - 1) : df[q[i]].sum >= df[q[i + 1]].sum}}

\* Series.cumsum()
Cumsum(s) == [i \in 1..Len(s) |-> SeqSum(SubSeq(s, 1, i))]

\* Series.quantile(q) with linear interpolation, times 100; q in percent
Quantile100(s, q) ==
    LET v == SortAsc(s)
        n == Len(v)
        pos == q * (n - 1)
        lo == pos \div 100
        hi == IF lo + 1 <= n - 1 THEN lo + 1 ELSE n - 1
    IN 100 * v[lo + 1] + (pos - 100 * lo) * (v[hi + 1] - v[lo + 1])

\* KeepIdx that ignores the allow-list (mutant)
KeepIdx_IgnoreAllowlist(df, allowlist_names) ==
    [i \in 1..Len(df) |-> df[i].sum < 0]

\* lines 599-603
KeepIdx(df, allowlist_names) ==
    [i \in 1..Len(df) |->
        IF ~allowlist_names.is_none THEN df[i].name \in allowlist_names.names
        ELSE df[i].sum < 0]

\* RenameAboveQuantile that renames nothing (mutant)
RenameAboveQuantile_Never(df, keep_idx, quantiles) == df

\* RenameAboveQuantile with >= in place of > (mutant)
RenameAboveQuantile_AtOrAbove(df, keep_idx, quantiles) ==
    [i \in 1..Len(df) |->
        IF ~keep_idx[i] /\ 100 * df[i].cumsum >= quantiles
        THEN [df[i] EXCEPT !.name = "others"] ELSE df[i]]

\* lines 605-612: rows not kept whose cumsum is above the quantile
RenameAboveQuantile(df, keep_idx, quantiles) ==
    [i \in 1..Len(df) |->
        IF ~keep_idx[i] /\ 100 * df[i].cumsum > quantiles
        THEN [df[i] EXCEPT !.name = "others"] ELSE df[i]]

\* RenameFromNumKernels with > in place of >= (mutant)
RenameFromNumKernels_Strict(df, keep_idx, num_kernels) ==
    [i \in 1..Len(df) |->
        IF ~keep_idx[i] /\ (i - 1) > num_kernels
        THEN [df[i] EXCEPT !.name = "others"] ELSE df[i]]

\* lines 613-615: rows not kept whose (0-based) index is >= num_kernels
RenameFromNumKernels(df, keep_idx, num_kernels) ==
    [i \in 1..Len(df) |->
        IF ~keep_idx[i] /\ (i - 1) >= num_kernels
        THEN [df[i] EXCEPT !.name = "others"] ELSE df[i]]

\* lines 599-615: the dataframe with its cumsum column and its names rewritten
RenameOthers(df, num_kernels, duration_ratio, allowlist_names) ==
    LET keep_idx == KeepIdx(df, allowlist_names)
        cumsum == Cumsum(Column(df, "sum"))
        withCumsum == [i \in 1..Len(df) |-> df[i] @@ [cumsum |-> cumsum[i]]]
        quantiles == Quantile100(cumsum, duration_ratio)
    IN RenameFromNumKernels(
           RenameAboveQuantile(withCumsum, keep_idx, quantiles),
           keep_idx, num_kernels)

\* the input dataframes of one call: up to MaxRows rows (name, dur), listed
\* by name and duration (the result of groupby does not depend on the order
\* of the rows)
InputNameOrder == SelectSeq(NameOrder, LAMBDA n : n \in InputNames)
RowKinds == Len(InputNameOrder) * (MaxDur + 1)
RowOfKind(j) == [name |-> InputNameOrder[((j - 1) \div (MaxDur + 1)) + 1],
                 dur |-> (j - 1) % (MaxDur + 1)]
\* whether the rows of a dataframe, given by their kinds, are in ascending
\* order: one row order stands for all orders of the rows (every use of the
\* rows sorts them or selects from them by value)
IsOrdered(t) == \A i \in 1..(Len(t) - 1) : t[i] <= t[i + 1]

AggrInit ==
    /\ aggr_pc = "call"
    /\ \E n \in 0..MaxRows, k \in 0..MaxNumKernels,
          q \in DurationRatios,
          a \in {None} \cup {Some(l) : l \in SUBSET InputNames} :
          \E t \in [1..n -> 1..RowKinds] :
              /\ IsOrdered(t)
              /\ aggr_args =
                     [gpu_kernel_time |-> [i \in 1..n |-> RowOfKind(t[i])],
                      num_kernels |-> k,
                      duration_ratio |-> q,
                      allowlist_names |-> a]
    /\ aggr_sorted = <<>>
    /\ aggr_renamed = <<>>
    /\ gpu_kernel_time = <<>>

\* the whole of _aggr_gpu_kernel_time (lines 588-622)
AggrGpuKernelTime ==
    /\ aggr_pc = "call"
    /\ \E sorted \in SortedBySumDesc(GroupByName(aggr_args.gpu_kernel_time, "dur")) :
          LET df == FillnaStd(sorted)
          IN /\ aggr_sorted' = df
             /\ IF Len(df) > aggr_args.num_kernels
                THEN LET ren == RenameOthers(df, aggr_args.num_kernels,
                                             aggr_args.duration_ratio,
                                             aggr_args.allowlist_names)
                     IN /\ aggr_renamed' = ren
                        /\ gpu_kernel_time' = FillnaStd(GroupByName(ren, "sum"))
                ELSE /\ aggr_renamed' = <<>>
                     /\ gpu_kernel_time' = df
    /\ aggr_pc' = "done"
    /\ UNCHANGED aggr_args

AggrNext == AggrGpuKernelTime /\ UNCHANGED <<ov_vars, tb_vars, idle_vars, anno_vars, uab_vars, merge_vars>>

AggrIdle ==
    /\ aggr_pc = "idle"
    /\ aggr_args = <<>>
    /\ aggr_sorted = <<>>
    /\ aggr_renamed = <<>>
    /\ gpu_kernel_time = <<>>

(***************************************************************************)
(* merge_kernel_intervals (hta/utils/utils.py): sort by ts; scan, extending*)
(* the current merged interval's end with max(end, next.end) whenever      *)
(* next.ts <= current.end, otherwise close it and open a new one.          *)
(***************************************************************************)
RECURSIVE InsertByTs(_, _)
InsertByTs(x, s) ==
    IF s = <<>> THEN <<x>>
    ELSE IF x.ts < Head(s).ts THEN <<x>> \o s
    ELSE <<Head(s)>> \o InsertByTs(x, Tail(s))

RECURSIVE SortByTs(_)
SortByTs(df) ==
    IF df = <<>> THEN <<>>
    ELSE InsertByTs(df[Len(df)], SortByTs(SubSeq(df, 1, Len(df) - 1)))

\* MergeScan that leaves touching intervals apart (mutant)
RECURSIVE MergeScan_Touching(_, _)
MergeScan_Touching(rest, acc) ==
    IF rest = <<>> THEN acc
    ELSE LET cur == acc[Len(acc)]
             nxt == Head(rest)
         IN IF nxt.ts < cur.end
            THEN MergeScan_Touching(Tail(rest),
                     [acc EXCEPT ![Len(acc)].end =
                          IF nxt.end > cur.end THEN nxt.end ELSE cur.end])
            ELSE MergeScan_Touching(Tail(rest), Append(acc, nxt))

RECURSIVE MergeScan(_, _)
MergeScan(rest, acc) ==
    IF rest = <<>> THEN acc
    ELSE LET cur == acc[Len(acc)]
             nxt == Head(rest)
         IN IF nxt.ts <= cur.end
            THEN MergeScan(Tail(rest),
                     [acc EXCEPT ![Len(acc)].end =
                          IF nxt.end > cur.end THEN nxt.end ELSE cur.end])
            ELSE MergeScan(Tail(rest), Append(acc, nxt))

merge_kernel_intervals(kernel_df) ==
    LET sorted == SortByTs([i \in 1..Len(kernel_df) |->
                               [ts |-> kernel_df[i].ts,
                                end |-> kernel_df[i].ts + kernel_df[i].dur]])
    IN IF sorted = <<>> THEN <<>>
       ELSE MergeScan(Tail(sorted), <<Head(sorted)>>)

(***************************************************************************)
(* _get_gpu_kernel_type_time                                               *)
(***************************************************************************)
MaxTs == 3              \* latest end of a kernel
MaxKernels == 2         \* most GPU kernels of one rank

KernelTypes == <<"COMPUTATION", "COMMUNICATION", "MEMORY">>

\* the kernels of a rank: [ts, ts + dur) within 0..MaxTs, with a kernel type
KernelKinds ==
    {[ts |-> t, dur |-> d, kernel_type |-> KernelTypes[k]] :
        t \in 0..MaxTs, d \in 0..MaxTs, k \in 1..Len(KernelTypes)}
KernelRows == {r \in KernelKinds : r.ts + r.dur <= MaxTs}
KernelOrd(r) ==
    (r.ts * (MaxTs + 1) + r.dur) * Len(KernelTypes)
        + (CHOOSE k \in 1..Len(KernelTypes) : KernelTypes[k] = r.kernel_type)
Pow2(i) == IF i = 0 THEN 1 ELSE IF i = 1 THEN 2 ELSE IF i = 2 THEN 4 ELSE 8

\* u & v for a flag v = 2^i and an integer u >= 0
BitAnd(u, v) == IF (u \div v) % 2 = 1 THEN v ELSE 0

\* Melt that gives every kernel type the flag 1 (mutant)
Melt_UnitFlag(kernel_t_df, value) ==
    [i \in 1..Len(kernel_t_df) |-> [status |-> 1, time |-> kernel_t_df[i].ts]]
    \o [i \in 1..Len(kernel_t_df) |-> [status |-> -1, time |-> kernel_t_df[i].end]]

\* lines 517-519: melt of the merged intervals, ts -> value, end -> -value
Melt(kernel_t_df, value) ==
    [i \in 1..Len(kernel_t_df) |-> [status |-> value, time |-> kernel_t_df[i].ts]]
    \o [i \in 1..Len(kernel_t_df) |-> [status |-> 0 - value, time |-> kernel_t_df[i].end]]

RECURSIVE ConcatAll(_)
ConcatAll(ss) == IF ss = <<>> THEN <<>> ELSE Head(ss) \o ConcatAll(Tail(ss))

Range(s) == {s[i] : i \in 1..Len(s)}

\* the orders sort_values(by="time") may produce for a set of rows: the sort
\* is not a stable one, rows of equal time come out in any order
RECURSIVE SortedByTime(_)
SortedByTime(S) ==
    IF S = {} THEN {<<>>}
    ELSE LET first == {e \in S : \A o \in S : e.time <= o.time}
         IN UNION {{<<e>> \o t : t \in SortedByTime(S \ {e})} : e \in first}

\* WithRunning whose running sum leaves out the row's own status (mutant)
WithRunning_Lagging(df) ==
    [i \in 1..Len(df) |->
        [status |-> df[i].status,
         time |-> df[i].time,
         running |-> SeqSum(SubSeq(Column(df, "status"), 1, i - 1)),
         next_time |-> IF i < Len(df) THEN df[i + 1].time ELSE -1,
         next_is_nan |-> i = Len(df)]]

\* lines 526-527: the running and next_time columns; next_time of the last
\* row is NaN, here -1
WithRunning(df) ==
    [i \in 1..Len(df) |->
        [status |-> df[i].status,
         time |-> df[i].time,
         running |-> SeqSum(SubSeq(Column(df, "status"), 1, i)),
         next_time |-> IF i < Len(df) THEN df[i + 1].time ELSE -1,
         next_is_nan |-> i = Len(df)]]

\* lines 529-542: the label of a running value > 0
RECURSIVE RunningLabel(_, _, _)
RunningLabel(u_running, types, idx) ==
    IF idx > Len(types) THEN ""
    ELSE LET rest == RunningLabel(u_running, types, idx + 1)
         IN IF BitAnd(u_running, Pow2(idx - 1)) # 0
            THEN IF rest = "" THEN types[idx]
                 ELSE types[idx] \o " overlapping " \o rest
            ELSE rest

\* the labels in the order groupby(by=["kernel_type"]) sorts them
LabelOrder ==
    <<"",
      "COMMUNICATION",
      "COMMUNICATION overlapping MEMORY",
      "COMPUTATION",
      "COMPUTATION overlapping COMMUNICATION",
      "COMPUTATION overlapping COMMUNICATION overlapping MEMORY",
      "COMPUTATION overlapping MEMORY",
      "MEMORY">>

\* lines 544-559: rows of running > 0, labelled, their dur summed per label
SumPerLabel(sweep, types) ==
    LET live == SelectSeq(sweep, LAMBDA r : r.running > 0)
        labelled == [i \in 1..Len(live) |->
                        [kernel_type |-> RunningLabel(live[i].running, types, 1),
                         dur |-> live[i].next_time - live[i].time]]
        present == {labelled[i].kernel_type : i \in 1..Len(labelled)}
        keys == SelectSeq(LabelOrder, LAMBDA l : l \in present)
    IN [k \in 1..Len(keys) |->
           [kernel_type |-> keys[k],
            sum |-> SeqSum(Column(SelectSeq(labelled,
                               LAMBDA r : r.kernel_type = keys[k]), "dur"))]]

KernelTypeLists ==
    {<<"COMPUTATION", "COMMUNICATION">>,
     <<"COMPUTATION", "COMMUNICATION", "MEMORY">>}

OverlapInit ==
    /\ ov_pc = "call"
    /\ \E n \in 0..MaxKernels, l \in KernelTypeLists :
          \E df \in [1..n -> KernelRows] :
              /\ IsOrdered([i \in 1..Len(df) |-> KernelOrd(df[i])])
              /\ ov_args = [gpu_kernels |-> df, kernel_type_to_analysis |-> l]
    /\ ov_merged = <<>>
    /\ ov_sweep = <<>>
    /\ overlap_kernel_type_df = <<>>

OverlapIdle ==
    /\ ov_pc = "idle"
    /\ ov_args = <<>>
    /\ ov_merged = <<>>
    /\ ov_sweep = <<>>
    /\ overlap_kernel_type_df = <<>>

\* the whole of _get_gpu_kernel_type_time (lines 498-561)
GetGpuKernelTypeTime ==
    /\ ov_pc = "call"
    /\ LET types == ov_args.kernel_type_to_analysis
           merged == [idx \in 1..Len(types) |->
                         merge_kernel_intervals(
                             SelectSeq(ov_args.gpu_kernels,
                                 LAMBDA r : r.kernel_type = types[idx]))]
           melted == ConcatAll([idx \in 1..Len(types) |->
                                   Melt(merged[idx], Pow2(idx - 1))])
       IN /\ ov_merged' = merged
          /\ \E sorted \in SortedByTime(Range(melted)) :
                LET sweep == WithRunning(sorted)
                IN /\ ov_sweep' = sweep
                   /\ IF \E i \in 1..Len(sweep) :
                             sweep[i].running > 0 /\ sweep[i].next_is_nan
                      THEN \* astype(int) of a NaN (line 554)
                           /\ ov_pc' = "IntCastingNaNError"
                           /\ overlap_kernel_type_df' = <<>>
                      ELSE /\ ov_pc' = "done"
                           /\ overlap_kernel_type_df' = SumPerLabel(sweep, types)
    /\ UNCHANGED ov_args

OverlapNext == GetGpuKernelTypeTime /\ UNCHANGED <<aggr_vars, tb_vars, idle_vars, anno_vars, uab_vars, merge_vars>>

(***************************************************************************)
(* get_temporal_breakdown                                                  *)
(***************************************************************************)
\* the symbol table: symbol id i is the name sym_table[i + 1]
sym_table == <<"gemm", "ncclKernel_AllReduce", "Memcpy DtoD">>

\* hta/utils/utils.py: every kernel name has exactly one kernel type
get_kernel_type(name) ==
    IF name = "ncclKernel_AllReduce" THEN "COMMUNICATION"
    ELSE IF name = "Memcpy DtoD" THEN "MEMORY"
    ELSE "COMPUTATION"

GpuStream == 7

\* the rows of a rank's trace: GPU kernels within 0..MaxTs on a stream, and a
\* host-side event (stream -1) that outlasts them
GpuRows ==
    {r \in {[ts |-> t, dur |-> d, stream |-> GpuStream, name |-> n] :
                t \in 0..MaxTs, d \in 0..MaxTs, n \in 0..(Len(sym_table) - 1)} :
        r.ts + r.dur <= MaxTs}
CpuRows == {[ts |-> 0, dur |-> MaxTs + 1, stream |-> -1, name |-> 0]}
TraceRows == GpuRows \cup CpuRows
TraceRowOrd(r) ==
    ((r.ts * (MaxTs + 2) + r.dur) * Len(sym_table) + r.name) * 2
        + (IF r.stream = -1 THEN 0 ELSE 1)
\* the trace of a second rank: no event, one kernel, or one host-side event
OtherRankFrames ==
    {<<>>,
     <<[ts |-> 1, dur |-> 1, stream |-> GpuStream, name |-> 0]>>,
     <<[ts |-> 0, dur |-> MaxTs + 1, stream |-> -1, name |-> 0]>>}

\* t.traces: one rank, or ranks 0 and 1 in either dict order
TraceDicts(df) ==
    {<<[rank |-> 0, trace_df |-> df]>>}
    \cup {<<[rank |-> 0, trace_df |-> df], [rank |-> 1, trace_df |-> o]>> :
             o \in OtherRankFrames}
    \cup {<<[rank |-> 1, trace_df |-> o], [rank |-> 0, trace_df |-> df]>> :
             o \in OtherRankFrames}

\* merged.end.sum() - merged.ts.sum()
MergedTime(merged) ==
    SeqSum(Column(merged, "end")) - SeqSum(Column(merged, "ts"))

\* get_idle_time_for_kernels that takes the end of the first merged interval
\* for the end of the window (mutant)
get_idle_time_for_kernels_FirstEnd(kernels_df) ==
    LET merged_kernels == merge_kernel_intervals(kernels_df)
    IN IF merged_kernels = <<>>
       THEN [raised |-> "IndexError", idle_time |-> 0, kernel_time |-> 0]
       ELSE LET kernel_time == merged_kernels[1].end - merged_kernels[1].ts
                kernel_run_time == MergedTime(merged_kernels)
            IN [raised |-> "",
                idle_time |-> kernel_time - kernel_run_time,
                kernel_time |-> kernel_time]

\* get_idle_time_for_kernels that gives a window of 0 for an empty merged
\* set (mutant)
get_idle_time_for_kernels_ZeroOnEmpty(kernels_df) ==
    LET merged_kernels == merge_kernel_intervals(kernels_df)
    IN IF merged_kernels = <<>>
       THEN [raised |-> "", idle_time |-> 0, kernel_time |-> 0]
       ELSE LET kernel_time == merged_kernels[Len(merged_kernels)].end
                                   - merged_kernels[1].ts
                kernel_run_time == MergedTime(merged_kernels)
            IN [raised |-> "",
                idle_time |-> kernel_time - kernel_run_time,
                kernel_time |-> kernel_time]

\* lines 635-639; iloc[-1] / iloc[0] of an empty dataframe raise IndexError
get_idle_time_for_kernels(kernels_df) ==
    LET merged_kernels == merge_kernel_intervals(kernels_df)
    IN IF merged_kernels = <<>>
       THEN [raised |-> "IndexError", idle_time |-> 0, kernel_time |-> 0]
       ELSE LET kernel_time == merged_kernels[Len(merged_kernels)].end
                                   - merged_kernels[1].ts
                kernel_run_time == MergedTime(merged_kernels)
            IN [raised |-> "",
                idle_time |-> kernel_time - kernel_run_time,
                kernel_time |-> kernel_time]

\* lines 653-678: the merged time of the kernels of one kernel type
KernelTypeTime(gpu_kernels, kernel_type) ==
    MergedTime(merge_kernel_intervals(
        SelectSeq(gpu_kernels,
            LAMBDA r : get_kernel_type(sym_table[r.name + 1]) = kernel_type)))

\* lines 648-687
idle_time_per_rank(trace_df) ==
    LET gpu_kernels == SelectSeq(trace_df, LAMBDA r : r.stream # -1)
        it == get_idle_time_for_kernels(gpu_kernels)
        idle_time == it.idle_time
        kernel_time == it.kernel_time
        compute_time == KernelTypeTime(gpu_kernels, "COMPUTATION")
        comm_time == KernelTypeTime(gpu_kernels, "COMMUNICATION")
        mem_time == KernelTypeTime(gpu_kernels, "MEMORY")
        non_compute_time == kernel_time - compute_time - idle_time
    IN [raised |->
            IF it.raised # "" THEN it.raised
            ELSE IF /\ idle_time <= kernel_time
                    /\ compute_time <= kernel_time
                    /\ non_compute_time >= 0
                    /\ comm_time <= kernel_time
                    /\ mem_time <= kernel_time
                 THEN "" ELSE "AssertionError",
        idle_time |-> idle_time,
        compute_time |-> compute_time,
        comm_time |-> comm_time,
        mem_time |-> mem_time,
        non_compute_time |-> non_compute_time,
        kernel_time |-> kernel_time]

\* round(x, 2) of the fraction 100 * num / den, in hundredths, half to even;
\* a division by zero gives NaN (0 / 0) or inf (kept as the fraction num / 0)
RoundPctg(num, den) ==
    IF den = 0 THEN <<num, 0>>
    ELSE LET n == 10000 * num
             q == n \div den
             r2 == 2 * (n % den)
         IN <<IF r2 > den \/ (r2 = den /\ q % 2 = 1) THEN q + 1 ELSE q, 100>>

\* lines 702-721: one row of result_df with the columns the code assigns
ResultRow(r) ==
    ("rank" :> r.rank)
    @@ ("idle_time(us)" :> r.idle_time)
    @@ ("compute_time(us)" :> r.compute_time)
    @@ ("non_compute_time(us)" :> r.non_compute_time)
    @@ ("kernel_time(us)" :> r.kernel_time)
    @@ ("comm_time(us)" :> r.comm_time)
    @@ ("mem_time(us)" :> r.mem_time)
    @@ ("idle_time" :> <<r.idle_time, r.kernel_time>>)
    @@ ("idle_time_pctg" :> RoundPctg(r.idle_time, r.kernel_time))
    @@ ("compute_time" :> <<r.compute_time, r.kernel_time>>)
    @@ ("compute_time_pctg" :> RoundPctg(r.compute_time, r.kernel_time))
    @@ ("comm_time" :> <<r.comm_time, r.kernel_time>>)
    @@ ("comm_time_pctg" :> RoundPctg(r.comm_time, r.kernel_time))
    @@ ("mem_time" :> <<r.mem_time, r.kernel_time>>)
    @@ ("mem_time_pctg" :> RoundPctg(r.mem_time, r.kernel_time))

\* the columns result_df has after line 721
AssignedColumns ==
    {"rank", "idle_time(us)", "compute_time(us)", "non_compute_time(us)",
     "kernel_time(us)", "comm_time(us)", "mem_time(us)",
     "idle_time", "idle_time_pctg", "compute_time", "compute_time_pctg",
     "comm_time", "comm_time_pctg", "mem_time", "mem_time_pctg"}

\* lines 740-755: the columns the return statement selects
ReturnedColumns ==
    {"rank", "idle_time(us)", "compute_time(us)", "comm_time(us)",
     "mem_time(us)", "non_compute_time(us)", "kernel_time(us)",
     "idle_time_pctg", "compute_time_pctg", "comm_time_pctg",
     "mem_time_pctg", "non_compute_time_pctg"}

\* result_df[[...]]: the rows restricted to the selected columns
SelectColumns(df, cols) ==
    [i \in 1..Len(df) |-> [c \in cols |-> df[i][c]]]

TemporalInit ==
    /\ tb_pc = "loop"
    /\ \E n \in 0..MaxKernels :
          \E df \in [1..n -> TraceRows] :
              /\ IsOrdered([i \in 1..Len(df) |-> TraceRowOrd(df[i])])
              /\ traces \in TraceDicts(df)
    /\ tb_i = 0
    /\ result = <<>>
    /\ result_df = <<>>

TemporalIdle ==
    /\ tb_pc = "idle"
    /\ traces = <<>>
    /\ tb_i = 0
    /\ result = <<>>
    /\ result_df = <<>>

\* one iteration of the loop of lines 690-700
TemporalLoopRank ==
    /\ tb_pc = "loop"
    /\ tb_i < Len(traces)
    /\ LET item == traces[tb_i + 1]
           r == idle_time_per_rank(item.trace_df)
       IN IF r.raised # ""
          THEN /\ tb_pc' = r.raised
               /\ UNCHANGED <<tb_i, result>>
          ELSE /\ tb_pc' = "loop"
               /\ tb_i' = tb_i + 1
               /\ result' = Append(result, [rank |-> item.rank] @@ r)
    /\ UNCHANGED <<traces, result_df>>

\* lines 702-755: the percentage columns and the selection of the columns
TemporalReturn ==
    /\ tb_pc = "loop"
    /\ tb_i = Len(traces)
    /\ LET df == [i \in 1..Len(result) |-> ResultRow(result[i])]
       IN IF ReturnedColumns \subseteq AssignedColumns
          THEN /\ tb_pc' = "done"
               /\ result_df' = SelectColumns(df, ReturnedColumns)
          ELSE /\ tb_pc' = "KeyError"
               /\ result_df' = <<>>
    /\ UNCHANGED <<traces, tb_i, result>>

TemporalNext ==
    \/ TemporalLoopRank /\ UNCHANGED <<aggr_vars, ov_vars, idle_vars, anno_vars, uab_vars, merge_vars>>
    \/ TemporalReturn /\ UNCHANGED <<aggr_vars, ov_vars, idle_vars, anno_vars, uab_vars, merge_vars>>

(***************************************************************************)
(* _analyze_idle_time_for_stream                                           *)
(* The columns that hold NaN are float columns: a float is the fraction    *)
(* <<numerator, denominator>>, NaN is <<0, 0>>; a comparison with NaN is    *)
(* false, a difference with NaN is NaN, a sum skips NaN.                   *)
(***************************************************************************)
MaxDelay == 2           \* largest consecutive_kernel_delay

\* hta/utils/utils.py: the members of the enum IdleTimeType, in the order
\* of their values; a member is written by its lower-case name
IdleTimeType == <<"host_wait", "kernel_wait", "other">>

Float(v) == <<v, 1>>
IsNaN(x) == x[2] = 0
FloatGt(x, y) == ~IsNaN(x) /\ ~IsNaN(y) /\ x[1] > y[1]
FloatLt(x, y) == ~IsNaN(x) /\ ~IsNaN(y) /\ x[1] < y[1]
FloatSub(x, y) == IF IsNaN(x) \/ IsNaN(y) THEN NaN ELSE Float(x[1] - y[1])
\* Series.sum(): NaN is skipped
NanSum(s) == SeqSum([i \in 1..Len(s) |-> IF IsNaN(s[i]) THEN 0 ELSE s[i][1]])

OtherStream == 20

\* the kernels of a rank joined with their runtime events: kernels within
\* 0..MaxTs on stream GpuStream, launched at ts_runtime <= ts or without a
\* runtime event (ts_runtime NaN), and a kernel on another stream
StreamRows ==
    {r \in {[stream |-> GpuStream, ts |-> t, dur |-> d, ts_runtime |-> rt] :
                t \in 0..MaxTs, d \in 0..MaxTs,
                rt \in {NaN} \cup {Float(v) : v \in 0..MaxTs}} :
        r.ts + r.dur <= MaxTs /\ (IsNaN(r.ts_runtime) \/ r.ts_runtime[1] <= r.ts)}
    \cup {[stream |-> OtherStream, ts |-> 0, dur |-> 1, ts_runtime |-> Float(0)]}
StreamRowOrd(r) ==
    (((r.ts * (MaxTs + 1) + r.dur) * (MaxTs + 2))
        + (IF IsNaN(r.ts_runtime) THEN 0 ELSE r.ts_runtime[1] + 1)) * 2
        + (IF r.stream = GpuStream THEN 0 ELSE 1)
\* the orders sort_values(by="ts") may produce for the rows (given by their
\* positions): the sort is not a stable one
RECURSIVE SortedByTsOrders(_, _)
SortedByTsOrders(df, I) ==
    IF I = {} THEN {<<>>}
    ELSE LET first == {i \in I : \A j \in I : df[i].ts <= df[j].ts}
         IN UNION {{<<df[i]>> \o t : t \in SortedByTsOrders(df, I \ {i})} :
                   i \in first}

\* lines 781-785: end_ts, prev_end_ts = end_ts.shift(1), idle_interval
WithIdleInterval(df) ==
    [i \in 1..Len(df) |->
        LET prev_end_ts == IF i = 1 THEN NaN
                           ELSE Float(df[i - 1].ts + df[i - 1].dur)
        IN df[i] @@ [end_ts |-> df[i].ts + df[i].dur,
                     prev_end_ts |-> prev_end_ts,
                     idle_interval |-> FloatSub(Float(df[i].ts), prev_end_ts)]]

\* IdleCategory whose kernel-wait test forgets ~is_host_wait (mutant)
IdleCategory_KernelWaitFirst(r, consecutive_kernel_delay) ==
    LET is_host_wait == FloatGt(r.ts_runtime, r.prev_end_ts)
        is_kernel_kernel_delay ==
            FloatLt(r.idle_interval, Float(consecutive_kernel_delay))
    IN IF is_kernel_kernel_delay THEN "kernel_wait"
       ELSE IF is_host_wait THEN "host_wait"
       ELSE "other"

\* lines 788-812: the idle category of one row
IdleCategory(r, consecutive_kernel_delay) ==
    LET is_host_wait == FloatGt(r.ts_runtime, r.prev_end_ts)
        is_kernel_kernel_delay ==
            ~is_host_wait /\ FloatLt(r.idle_interval, Float(consecutive_kernel_delay))
    IN IF is_kernel_kernel_delay THEN "kernel_wait"
       ELSE IF is_host_wait THEN "host_wait"
       ELSE "other"

WithIdleCategory(df, consecutive_kernel_delay) ==
    [i \in 1..Len(df) |->
        df[i] @@ [idle_category |-> IdleCategory(df[i], consecutive_kernel_delay)]]

\* lines 815-827: groupby("idle_category").idle_interval.sum(), the stream
\* and the ratio to the total
IdleBreakdown(df, stream) ==
    LET present == {df[i].idle_category : i \in 1..Len(df)}
        keys == SelectSeq(IdleTimeType, LAMBDA c : c \in present)
        sumOf(c) == NanSum(Column(SelectSeq(df, LAMBDA r : r.idle_category = c),
                                  "idle_interval"))
        total_idle_time == SeqSum([k \in 1..Len(keys) |-> sumOf(keys[k])])
    IN [k \in 1..Len(keys) |->
           [idle_category |-> keys[k],
            idle_time |-> sumOf(keys[k]),
            stream |-> stream,
            idle_time_ratio |-> <<sumOf(keys[k]), total_idle_time>>]]

IdleInit ==
    /\ idle_pc = "call"
    /\ \E n \in 0..MaxKernels, d \in 0..MaxDelay :
          \E df \in [1..n -> StreamRows] :
              /\ IsOrdered([i \in 1..Len(df) |-> StreamRowOrd(df[i])])
              /\ idle_args = [stream |-> GpuStream,
                              gpu_kernels |-> df,
                              consecutive_kernel_delay |-> d,
                              show_idle_interval_stats |-> FALSE]
    /\ gpu_kernels_s = <<>>
    /\ idle_result = <<>>

IdleIdle ==
    /\ idle_pc = "idle"
    /\ idle_args = <<>>
    /\ gpu_kernels_s = <<>>
    /\ idle_result = <<>>

\* the whole of _analyze_idle_time_for_stream (lines 774-828), without the
\* optional descriptive statistics
AnalyzeIdleTimeForStream ==
    /\ idle_pc = "call"
    /\ LET df == idle_args.gpu_kernels
           onStream == {i \in 1..Len(df) : df[i].stream = idle_args.stream}
       IN \E sorted \in SortedByTsOrders(df, onStream) :
             LET s == WithIdleCategory(WithIdleInterval(sorted),
                                       idle_args.consecutive_kernel_delay)
             IN /\ gpu_kernels_s' = s
                /\ idle_result' = IdleBreakdown(s, idle_args.stream)
    /\ idle_pc' = "done"
    /\ UNCHANGED idle_args

IdleNext == AnalyzeIdleTimeForStream /\ UNCHANGED <<aggr_vars, ov_vars, tb_vars, anno_vars, uab_vars, merge_vars>>

(***************************************************************************)
(* get_gpu_kernels_with_user_annotations and its helpers                   *)
(* A category or a name is written by its symbol; the sentinel of          *)
(* user_annotation is -1.                                                  *)
(***************************************************************************)
MaxAnnoTs == 2          \* latest end of an annotation or of a kernel
MaxAnnos == 2           \* most annotations of the trace
MaxAnnoKernels == 1     \* most kernels of the trace

\* Optional[pd.DataFrame]
NoneDf == [is_none |-> TRUE, df |-> <<>>]
SomeDf(df) == [is_none |-> FALSE, df |-> df]

\* the events of a rank: annotations of one process (pid 0) on two threads
\* (streams) and kernels on the first of them; the name of an annotation is
\* a symbol id that tells the annotations apart, the name of a kernel is the
\* symbol 0
AnnoTids == {GpuStream, OtherStream}
AnnoName(tid, ts, dur) ==
    1 + 2 * (ts * (MaxAnnoTs + 1) + dur) + (IF tid = GpuStream THEN 0 ELSE 1)
AnnoRows ==
    {r \in {[cat |-> "gpu_user_annotation", pid |-> 0, tid |-> s, ts |-> t,
             dur |-> d, name |-> AnnoName(s, t, d)] :
                s \in AnnoTids, t \in 0..MaxAnnoTs, d \in 0..MaxAnnoTs} :
        r.ts + r.dur <= MaxAnnoTs}
AnnoKernelRows ==
    {r \in {[cat |-> "kernel", pid |-> 0, tid |-> s, ts |-> t, dur |-> d,
             name |-> 0] :
                s \in {GpuStream}, t \in 0..MaxAnnoTs, d \in 0..MaxAnnoTs} :
        r.ts + r.dur <= MaxAnnoTs}
AnnoRowOrd(r) ==
    2 * (r.ts * (MaxAnnoTs + 1) + r.dur) + (IF r.tid = GpuStream THEN 0 ELSE 1)

\* hta/utils/utils.py GPUKernelFilter: the rows that are GPU kernels
GPUKernelFilter(trace_df) == SelectSeq(trace_df, LAMBDA r : r.cat = "kernel")

\* lines 322-323: trace_df["end"] and trace_df["user_annotation"]
WithEndAndSentinel(trace_df) ==
    [i \in 1..Len(trace_df) |->
        trace_df[i] @@ [end |-> trace_df[i].ts + trace_df[i].dur,
                        user_annotation |-> -1]]

\* SortedByDurDesc in ascending order (mutant)
RECURSIVE SortedByDurDesc_Ascending(_, _)
SortedByDurDesc_Ascending(df, I) ==
    IF I = {} THEN {<<>>}
    ELSE LET first == {i \in I : \A j \in I : df[i].dur <= df[j].dur}
         IN UNION {{<<df[i]>> \o t : t \in SortedByDurDesc_Ascending(df, I \ {i})} :
                   i \in first}

\* lines 259-261: the orders sort_values("dur", ascending=False) may produce
\* for the rows at the positions I: the sort is not a stable one
RECURSIVE SortedByDurDesc(_, _)
SortedByDurDesc(df, I) ==
    IF I = {} THEN {<<>>}
    ELSE LET first == {i \in I : \A j \in I : df[i].dur >= df[j].dur}
         IN UNION {{<<df[i]>> \o t : t \in SortedByDurDesc(df, I \ {i})} :
                   i \in first}

\* get_gpu_user_anno_interval_dataframe that gives an empty dataframe when
\* the category is missing (mutant)
get_gpu_user_anno_interval_dataframe_EmptyTable(trace_df, sym) ==
    {SomeDf(d) :
        d \in SortedByDurDesc(trace_df,
                {i \in 1..Len(trace_df) :
                    trace_df[i].cat = "gpu_user_annotation"})}

\* lines 253-269: None, or the dataframes the function may return
get_gpu_user_anno_interval_dataframe(trace_df, sym) ==
    IF "gpu_user_annotation" \notin sym THEN {NoneDf}
    ELSE LET cols == [i \in 1..Len(trace_df) |->
                         [c \in {"pid", "tid", "ts", "end", "dur", "name"} |->
                             trace_df[i][c]]]
         IN {SomeDf(d) :
                d \in SortedByDurDesc(cols,
                        {i \in 1..Len(trace_df) :
                            trace_df[i].cat = "gpu_user_annotation"})}

\* pandas IntervalIndex.overlaps of two intervals closed on the left
Overlaps(k, interval) == k.ts < interval.end /\ interval.ts < k.end

\* DataFrame.drop_duplicates(): the first occurrence of each row is kept
RECURSIVE DropDuplicates(_)
DropDuplicates(s) ==
    IF s = <<>> THEN <<>>
    ELSE <<Head(s)>> \o DropDuplicates(SelectSeq(Tail(s), LAMBDA x : x # Head(s)))

\* lines 299-306: one annotation row written to the kernels it overlaps
AssignAnnotation(gpu_kernels_df, pid, tid, row) ==
    [i \in 1..Len(gpu_kernels_df) |->
        IF /\ gpu_kernels_df[i].pid = pid
           /\ gpu_kernels_df[i].tid = tid
           /\ Overlaps(gpu_kernels_df[i], row)
        THEN [gpu_kernels_df[i] EXCEPT !.user_annotation = row.name]
        ELSE gpu_kernels_df[i]]

\* lines 297-306: the loop over the annotations of one (pid, tid)
RECURSIVE AssociateRows(_, _, _, _)
AssociateRows(gpu_kernels_df, pid, tid, rows) ==
    IF rows = <<>> THEN gpu_kernels_df
    ELSE AssociateRows(AssignAnnotation(gpu_kernels_df, pid, tid, Head(rows)),
                       pid, tid, Tail(rows))

\* lines 287-306: the loop over pid_tids
RECURSIVE AssociatePidTids(_, _, _)
AssociatePidTids(gpu_kernels_df, anno_df, pid_tids) ==
    IF pid_tids = <<>> THEN gpu_kernels_df
    ELSE LET p == Head(pid_tids)
             gpu_user_anno_df_filt ==
                 SelectSeq(anno_df, LAMBDA r : r.pid = p.pid /\ r.tid = p.tid)
         IN AssociatePidTids(
                AssociateRows(gpu_kernels_df, p.pid, p.tid, gpu_user_anno_df_filt),
                anno_df, Tail(pid_tids))

\* lines 285-306
associate_gpu_kernels_with_user_annotations(gpu_kernels_df, anno_df) ==
    AssociatePidTids(gpu_kernels_df, anno_df,
        DropDuplicates([i \in 1..Len(anno_df) |->
                           [pid |-> anno_df[i].pid, tid |-> anno_df[i].tid]]))

AnnoInit ==
    /\ anno_pc = "call"
    /\ \E has \in BOOLEAN :
          \E na \in 0..(IF has THEN MaxAnnos ELSE 0), nk \in 0..MaxAnnoKernels :
             \E a \in [1..na -> AnnoRows], k \in [1..nk -> AnnoKernelRows] :
                /\ IsOrdered([i \in 1..na |-> AnnoRowOrd(a[i])])
                /\ IsOrdered([i \in 1..nk |-> AnnoRowOrd(k[i])])
                /\ anno_sym = {"kernel"} \cup
                              (IF has THEN {"gpu_user_annotation"} ELSE {})
                /\ anno_trace = a \o k
    /\ gpu_user_anno_df = <<>>
    /\ anno_result = NoneDf

AnnoIdle ==
    /\ anno_pc = "idle"
    /\ anno_sym = {}
    /\ anno_trace = <<>>
    /\ gpu_user_anno_df = <<>>
    /\ anno_result = NoneDf

\* the whole of get_gpu_kernels_with_user_annotations (lines 321-343), with
\* expand_names=False; trace_df is the table the Trace holds, not a copy
GetGpuKernelsWithUserAnnotations ==
    /\ anno_pc = "call"
    /\ LET trace_df == WithEndAndSentinel(anno_trace)
       IN /\ anno_trace' = trace_df
          /\ \E anno \in get_gpu_user_anno_interval_dataframe(trace_df, anno_sym) :
                IF anno.is_none
                THEN /\ gpu_user_anno_df' = <<>>
                     /\ anno_result' = NoneDf
                ELSE /\ gpu_user_anno_df' = anno.df
                     /\ anno_result' =
                            SomeDf(associate_gpu_kernels_with_user_annotations(
                                       GPUKernelFilter(trace_df), anno.df))
    /\ anno_pc' = "done"
    /\ UNCHANGED anno_sym

AnnoNext ==
    GetGpuKernelsWithUserAnnotations
        /\ UNCHANGED <<aggr_vars, ov_vars, tb_vars, idle_vars, uab_vars, merge_vars>>

(***************************************************************************)
(* get_gpu_user_annotation_breakdown                                       *)
(***************************************************************************)
\* every dataframe _aggr_gpu_kernel_time (lines 588-622) may return, one for
\* each order its sort may give to the groups of equal sum
aggr_gpu_kernel_time(df_in, duration_ratio, num_kernels, allowlist_names) ==
    {LET df == FillnaStd(sorted)
     IN IF Len(df) > num_kernels
        THEN FillnaStd(GroupByName(
                 RenameOthers(df, num_kernels, duration_ratio, allowlist_names),
                 "sum"))
        ELSE df :
        sorted \in SortedBySumDesc(GroupByName(df_in, "dur"))}

NameIdx(n) == CHOOSE i \in 1..Len(NameOrder) : NameOrder[i] = n

\* line 425: sort_values(by=["rank", "name"], ignore_index=True)
RECURSIVE InsertByRankName(_, _)
InsertByRankName(x, s) ==
    IF s = <<>> THEN <<x>>
    ELSE IF \/ x.rank < Head(s).rank
            \/ x.rank = Head(s).rank /\ NameIdx(x.name) <= NameIdx(Head(s).name)
         THEN <<x>> \o s
         ELSE <<Head(s)>> \o InsertByRankName(x, Tail(s))
RECURSIVE SortByRankName(_)
SortByRankName(df) ==
    IF df = <<>> THEN <<>>
    ELSE InsertByRankName(df[Len(df)], SortByRankName(SubSeq(df, 1, Len(df) - 1)))

\* lines 426-435: the columns renamed
RenameColumns(df) ==
    [i \in 1..Len(df) |->
        ("name" :> df[i].name)
        @@ ("sum (us)" :> df[i].sum)
        @@ ("max (us)" :> df[i].max)
        @@ ("min (us)" :> df[i].min)
        @@ ("stddev" :> df[i].std)
        @@ ("mean (us)" :> df[i].mean)
        @@ ("rank" :> df[i].rank)]

\* the rows of a rank's trace that the breakdown reads: user annotations
\* (name, dur) and a kernel of another category
UabAnnoRow(j) == [cat |-> "gpu_user_annotation"] @@ RowOfKind(j)
UabKernelRow == [cat |-> "kernel", name |-> "gemm", dur |-> 1]
\* the trace of a second rank
UabOtherRankFrames(has) ==
    {<<>>, <<UabKernelRow>>}
    \cup (IF has THEN {<<UabAnnoRow(RowKinds)>>,
                       <<UabKernelRow, UabAnnoRow(1), UabAnnoRow(RowKinds)>>}
          ELSE {})
\* t.traces: one rank, or ranks 0 and 1 in either dict order
UabTraceDicts(df, has) ==
    {<<[rank |-> 0, trace_df |-> df]>>}
    \cup {<<[rank |-> 0, trace_df |-> df], [rank |-> 1, trace_df |-> o]>> :
             o \in UabOtherRankFrames(has)}
    \cup {<<[rank |-> 1, trace_df |-> o], [rank |-> 0, trace_df |-> df]>> :
             o \in UabOtherRankFrames(has)}

UabInit ==
    /\ uab_pc = "loop"
    /\ \E has \in BOOLEAN :
          \E n \in 0..(IF has THEN MaxAnnos ELSE 0), k \in 0..MaxNumKernels,
             q \in DurationRatios, a \in {None, Some({"gemm"})} :
             \E t \in [1..n -> 1..RowKinds] :
                /\ IsOrdered(t)
                /\ \E tr \in UabTraceDicts(
                               [i \in 1..n |-> UabAnnoRow(t[i])] \o <<UabKernelRow>>,
                               has) :
                      uab_args =
                          [sym_index |-> {"kernel"} \cup
                               (IF has THEN {"gpu_user_annotation"} ELSE {}),
                           traces |-> tr,
                           use_gpu_annotation |-> TRUE,
                           num_kernels |-> k,
                           duration_ratio |-> q,
                           allowlist_names |-> a]
    /\ uab_i = 0
    /\ kernel_per_rank = <<>>
    /\ all_kernel_df = <<>>
    /\ uab_result = NoneDf

UabIdle ==
    /\ uab_pc = "idle"
    /\ uab_args = <<>>
    /\ uab_i = 0
    /\ kernel_per_rank = <<>>
    /\ all_kernel_df = <<>>
    /\ uab_result = NoneDf

UabAnnotation ==
    IF uab_args.use_gpu_annotation THEN "gpu_user_annotation" ELSE "user_annotation"

\* lines 380-385: the category is not in the symbol table
UabReturnNone ==
    /\ uab_pc = "loop"
    /\ UabAnnotation \notin uab_args.sym_index
    /\ uab_pc' = "done"
    /\ uab_result' = NoneDf
    /\ UNCHANGED <<uab_args, uab_i, kernel_per_rank, all_kernel_df>>

\* one iteration of the loop of lines 404-423
UabLoopRank ==
    /\ uab_pc = "loop"
    /\ UabAnnotation \in uab_args.sym_index
    /\ uab_i < Len(uab_args.traces)
    /\ LET item == uab_args.traces[uab_i + 1]
           gpu_user_annotation_kernels ==
               SelectSeq(item.trace_df, LAMBDA r : r.cat = UabAnnotation)
       IN \E agg \in aggr_gpu_kernel_time(gpu_user_annotation_kernels,
                                          uab_args.duration_ratio,
                                          uab_args.num_kernels,
                                          uab_args.allowlist_names) :
             LET gpu_kernel_time_r ==
                     [i \in 1..Len(agg) |-> agg[i] @@ [rank |-> item.rank]]
             IN /\ kernel_per_rank' =
                       Append(kernel_per_rank,
                              [rank |-> item.rank, df |-> gpu_kernel_time_r])
                /\ all_kernel_df' = all_kernel_df \o gpu_kernel_time_r
    /\ uab_i' = uab_i + 1
    /\ UNCHANGED <<uab_pc, uab_args, uab_result>>

\* lines 425-492 without the plots: the sort, the renamed columns, the return
UabReturn ==
    /\ uab_pc = "loop"
    /\ UabAnnotation \in uab_args.sym_index
    /\ uab_i = Len(uab_args.traces)
    /\ LET df == RenameColumns(SortByRankName(all_kernel_df))
       IN /\ all_kernel_df' = df
          /\ uab_result' = SomeDf(df)
    /\ uab_pc' = "done"
    /\ UNCHANGED <<uab_args, uab_i, kernel_per_rank>>

UabNext ==
    \/ UabReturnNone /\ UNCHANGED <<aggr_vars, ov_vars, tb_vars, idle_vars, anno_vars, merge_vars>>
    \/ UabLoopRank /\ UNCHANGED <<aggr_vars, ov_vars, tb_vars, idle_vars, anno_vars, merge_vars>>
    \/ UabReturn /\ UNCHANGED <<aggr_vars, ov_vars, tb_vars, idle_vars, anno_vars, merge_vars>>

(***************************************************************************)
(* _get_idle_time_for_kernels called on its own                            *)
(***************************************************************************)
MaxMergeRows == 3       \* most rows of kernels_df

\* the rows of kernels_df: [ts, ts + dur) within 0..MaxTs, in any order
MergeRows ==
    {r \in {[ts |-> t, dur |-> d] : t \in 0..MaxTs, d \in 0..MaxTs} :
        r.ts + r.dur <= MaxTs}

MergeInit ==
    /\ merge_pc = "call"
    /\ \E n \in 0..MaxMergeRows : merge_kernels_df \in [1..n -> MergeRows]
    /\ merge_merged = <<>>
    /\ merge_result = <<>>

MergeIdle ==
    /\ merge_pc = "idle"
    /\ merge_kernels_df = <<>>
    /\ merge_merged = <<>>
    /\ merge_result = <<>>

\* the whole of _get_idle_time_for_kernels (lines 635-639)
GetIdleTimeForKernels ==
    /\ merge_pc = "call"
    /\ merge_merged' = merge_kernel_intervals(merge_kernels_df)
    /\ LET r == get_idle_time_for_kernels(merge_kernels_df)
       IN IF r.raised # ""
          THEN /\ merge_pc' = r.raised
               /\ merge_result' = <<>>
          ELSE /\ merge_pc' = "done"
               /\ merge_result' = <<r.idle_time, r.kernel_time>>
    /\ UNCHANGED merge_kernels_df

MergeNext ==
    GetIdleTimeForKernels
        /\ UNCHANGED <<aggr_vars, ov_vars, tb_vars, idle_vars, anno_vars, uab_vars>>

\* one behaviour is one call of one operation; the others stay idle
InitAggr ==
    AggrInit /\ OverlapIdle /\ TemporalIdle /\ IdleIdle /\ AnnoIdle /\ UabIdle /\ MergeIdle
InitOverlap ==
    OverlapInit /\ AggrIdle /\ TemporalIdle /\ IdleIdle /\ AnnoIdle /\ UabIdle /\ MergeIdle
InitTemporal ==
    TemporalInit /\ AggrIdle /\ OverlapIdle /\ IdleIdle /\ AnnoIdle /\ UabIdle /\ MergeIdle
InitIdle ==
    IdleInit /\ AggrIdle /\ OverlapIdle /\ TemporalIdle /\ AnnoIdle /\ UabIdle /\ MergeIdle
InitAnno ==
    AnnoInit /\ AggrIdle /\ OverlapIdle /\ TemporalIdle /\ IdleIdle /\ UabIdle /\ MergeIdle
InitUab ==
    UabInit /\ AggrIdle /\ OverlapIdle /\ TemporalIdle /\ IdleIdle /\ AnnoIdle /\ MergeIdle
InitMerge ==
    MergeInit /\ AggrIdle /\ OverlapIdle /\ TemporalIdle /\ IdleIdle /\ AnnoIdle
        /\ UabIdle
\* the two operations on user annotations
InitAnnotations == InitAnno \/ InitUab
NextAnnotations == AnnoNext \/ UabNext

Init ==
    \/ InitAggr \/ InitOverlap \/ InitTemporal \/ InitIdle \/ InitAnno \/ InitUab
    \/ InitMerge
Next ==
    \/ AggrNext \/ OverlapNext \/ TemporalNext \/ IdleNext \/ AnnoNext \/ UabNext
    \/ MergeNext
Spec == Init /\ [][Next]_vars
SpecAggr == InitAggr /\ [][AggrNext]_vars
SpecOverlap == InitOverlap /\ [][OverlapNext]_vars
SpecTemporal == InitTemporal /\ [][TemporalNext]_vars
SpecIdle == InitIdle /\ [][IdleNext]_vars
SpecAnno == InitAnnotations /\ [][NextAnnotations]_vars
SpecMerge == InitMerge /\ [][MergeNext]_vars

(***************************************************************************)
(* Properties of _aggr_gpu_kernel_time (TopKAggregator)                    *)
(***************************************************************************)
AggrDone == aggr_pc = "done"
\* N, the number of distinct names of the input
AggrN == Len(aggr_sorted)
AggrK == aggr_args.num_kernels
AggrCollapsing == AggrDone /\ AggrN > AggrK
AggrPresent == {aggr_args.gpu_kernel_time[i].name :
                    i \in 1..Len(aggr_args.gpu_kernel_time)}
\* the allow-listed names that are present in the input
AggrAllowed == aggr_args.allowlist_names.names \cap AggrPresent
AggrRaw(n) ==
    Column(SelectSeq(aggr_args.gpu_kernel_time, LAMBDA r : r.name = n), "dur")
AggrOutNames == {gpu_kernel_time[i].name : i \in 1..Len(gpu_kernel_time)}
AggrOutRow(n) == gpu_kernel_time[CHOOSE i \in 1..Len(gpu_kernel_time) :
                                     gpu_kernel_time[i].name = n]
\* the groups (rows of the sorted dataframe) that were renamed to "others"
AggrCollapsed == {i \in 1..Len(aggr_renamed) : aggr_renamed[i].name = "others"}
\* cumulative sum of group i in sum-descending order, and the threshold
AggrCumsum(i) == SeqSum(SubSeq(Column(aggr_sorted, "sum"), 1, i))
AggrQuantile100 ==
    Quantile100([i \in 1..AggrN |-> AggrCumsum(i)], aggr_args.duration_ratio)
SetMax(S) == CHOOSE x \in S : \A y \in S : y <= x
SetMin(S) == CHOOSE x \in S : \A y \in S : x <= y

\* C4 (as claimed): with N distinct names and max_names = k < N, the output
\* has at most k + 1 rows, for any allow-list.
C4_AtMostKPlusOneRows ==
    AggrCollapsing => Len(gpu_kernel_time) <= AggrK + 1

\* C4 (amended): with k < N, at most k + 1 output rows are not allow-listed
\* names (at most k kept names and one "others" row); every allow-listed name
\* of the input keeps a row, so the output has at most k + 1 + a rows, a the
\* number of allow-listed names present in the input.
C4_AtMostKPlusOnePlusAllowed ==
    AggrCollapsing =>
        /\ Cardinality(AggrOutNames \ AggrAllowed) <= AggrK + 1
        /\ Len(gpu_kernel_time) <= AggrK + 1 + Cardinality(AggrAllowed)

C4_Witness ==
    /\ AggrCollapsing
    /\ AggrK >= 1
    /\ AggrAllowed # {}
    /\ "others" \in AggrOutNames
    /\ Len(gpu_kernel_time) = AggrK + 1 + Cardinality(AggrAllowed)

\* C5: the sum of the sum column over all output rows equals the sum of the
\* durations of all input samples, with or without collapsing.
C5_SumPreserved ==
    AggrDone =>
        SeqSum(Column(gpu_kernel_time, "sum"))
            = SeqSum(Column(aggr_args.gpu_kernel_time, "dur"))

C5_Witness ==
    /\ AggrCollapsing
    /\ Cardinality(AggrCollapsed) >= 2
    /\ \E i \in AggrCollapsed : Len(AggrRaw(aggr_sorted[i].name)) >= 2
    /\ \A i \in AggrCollapsed : aggr_sorted[i].sum > 0

\* C6: an allow-listed name is never renamed to "others": every allow-listed
\* name of the input is a row of the output, with its own group's sum.
C6_AllowlistedKept ==
    AggrDone =>
        /\ \A i \in 1..Len(aggr_renamed) :
               aggr_sorted[i].name \in aggr_args.allowlist_names.names
                   => aggr_renamed[i].name = aggr_sorted[i].name
        /\ \A n \in AggrAllowed :
               /\ n \in AggrOutNames
               /\ AggrOutRow(n).sum = SeqSum(AggrRaw(n))

C6_Witness ==
    /\ AggrCollapsing
    /\ \E i \in 1..AggrN :
          /\ aggr_sorted[i].name \in AggrAllowed
          /\ i - 1 >= AggrK
          /\ 100 * AggrCumsum(i) > AggrQuantile100
          /\ aggr_sorted[i].name \in AggrOutNames
    /\ AggrCollapsed # {}

\* C7 (as claimed): when collapsing happens the "others" row has the sum of
\* the collapsed groups' sums, the largest of their max values and the
\* smallest of their min values.
C7_OthersSumMaxMin ==
    (AggrCollapsing /\ AggrCollapsed # {}) =>
        /\ AggrOutRow("others").sum
               = SeqSum(Column(SelectSeq(aggr_renamed,
                                         LAMBDA r : r.name = "others"), "sum"))
        /\ AggrOutRow("others").max
               = SetMax({aggr_sorted[i].max : i \in AggrCollapsed})
        /\ AggrOutRow("others").min
               = SetMin({aggr_sorted[i].min : i \in AggrCollapsed})

\* C8 (as claimed): every output row of a kept name carries the sum, max, min
\* and mean of that name's raw duration samples, collapsing or not.
C8_KeptRowsCarryRawStats ==
    AggrDone =>
        \A n \in AggrOutNames \ {"others"} :
            LET raw == AggrRaw(n)
                row == AggrOutRow(n)
            IN /\ row.sum = SeqSum(raw)
               /\ row.max = SeqMax(raw)
               /\ row.min = SeqMin(raw)
               /\ row.mean[1] * Len(raw) = SeqSum(raw) * row.mean[2]

\* whether group i of the sorted dataframe is absent from the output under
\* its own name
AggrIsRenamed(i) == aggr_sorted[i].name \notin AggrOutNames
AggrTrigger(i) ==
    \/ 100 * AggrCumsum(i) > AggrQuantile100
    \/ i - 1 >= AggrK

\* C9 (as claimed): for any input, a group not in allow_names is renamed to
\* "others" whenever its cumulative sum exceeds the quantile and whenever its
\* rank index is >= max_names.
C9_IndependentTriggers ==
    AggrDone =>
        \A i \in 1..AggrN :
            (aggr_sorted[i].name \notin AggrAllowed /\ AggrTrigger(i))
                => AggrIsRenamed(i)

\* C9 (amended): when the number of groups exceeds max_names, a group not in
\* allow_names is renamed to "others" exactly when its cumulative sum exceeds
\* the quantile or its rank index is >= max_names, either alone being enough;
\* when the number of groups is at most max_names no group is renamed.
C9_TriggersWhenMoreThanMaxNames ==
    AggrDone =>
        /\ AggrN > AggrK =>
              \A i \in 1..AggrN :
                  aggr_sorted[i].name \notin AggrAllowed
                      => (AggrIsRenamed(i) <=> AggrTrigger(i))
        /\ AggrN <= AggrK => gpu_kernel_time = aggr_sorted

C9_Witness ==
    /\ AggrCollapsing
    /\ \E i \in 1..AggrN :
          /\ i - 1 < AggrK
          /\ 100 * AggrCumsum(i) > AggrQuantile100
          /\ aggr_sorted[i].name \notin AggrAllowed
          /\ AggrIsRenamed(i)

(***************************************************************************)
(* Properties of get_temporal_breakdown                                    *)
(***************************************************************************)
TbTraceOf(rank) ==
    traces[CHOOSE i \in 1..Len(traces) : traces[i].rank = rank].trace_df
TbGpuRows(rank) ==
    {r \in Range(TbTraceOf(rank)) : r.stream # -1}
\* the window and the busy time of a rank, from its GPU-stream events
TbWindow(rank) ==
    SetMax({r.ts + r.dur : r \in TbGpuRows(rank)})
        - SetMin({r.ts : r \in TbGpuRows(rank)})
TbBusy(rank) ==
    Cardinality({t \in 0..MaxTs : \E r \in TbGpuRows(rank) :
                                      r.ts <= t /\ t < r.ts + r.dur})

\* C1: for every rank that has a GPU-stream event no assertion fails:
\* idle_time, compute_time, comm_time and mem_time are <= kernel_window and
\* non_compute_time >= 0, with idle_time = kernel_window - busy_time and
\* non_compute_time = kernel_window - compute_time - idle_time.
C1_TemporalInvariants ==
    /\ tb_pc # "AssertionError"
    /\ \A i \in 1..Len(result) :
          LET r == result[i]
          IN /\ TbGpuRows(r.rank) # {}
             /\ r.kernel_time = TbWindow(r.rank)
             /\ r.idle_time = r.kernel_time - TbBusy(r.rank)
             /\ r.non_compute_time = r.kernel_time - r.compute_time - r.idle_time
             /\ r.idle_time <= r.kernel_time
             /\ r.compute_time <= r.kernel_time
             /\ r.comm_time <= r.kernel_time
             /\ r.mem_time <= r.kernel_time
             /\ r.non_compute_time >= 0

C1_Witness ==
    \E i \in 1..Len(result) :
        /\ result[i].idle_time > 0
        /\ result[i].compute_time > 0
        /\ result[i].non_compute_time > 0
        /\ result[i].comm_time > 0

TbEveryRankHasKernels ==
    \A i \in 1..Len(traces) : TbGpuRows(traces[i].rank) # {}

\* C2 (as claimed): on a trace in which every rank has GPU kernels the call
\* completes and returns one row per rank holding every column of the
\* contract, non_compute_time_pctg being non_compute_time / kernel_window * 100.
C2_ReturnsAllColumns ==
    (TbEveryRankHasKernels /\ tb_pc # "loop") =>
        /\ tb_pc = "done"
        /\ Len(result_df) = Len(traces)
        /\ \A i \in 1..Len(result_df) :
              /\ DOMAIN result_df[i] = ReturnedColumns
              /\ result_df[i]["non_compute_time_pctg"]
                     = RoundPctg(result_df[i]["non_compute_time(us)"],
                                 result_df[i]["kernel_time(us)"])

(***************************************************************************)
(* Properties of _get_gpu_kernel_type_time (OverlapClassifier)             *)
(***************************************************************************)
\* the length of the union of the merged intervals of all analysed types
OvUnionLength ==
    Cardinality({t \in 0..MaxTs :
        \E idx \in 1..Len(ov_merged) : \E i \in 1..Len(ov_merged[idx]) :
            ov_merged[idx][i].ts <= t /\ t < ov_merged[idx][i].end})

\* C3: the durations reported over all labels sum to the length of the union
\* of all categories' merged intervals.
C3_LabelSumIsUnion ==
    ov_pc \notin {"idle", "call"} =>
        /\ ov_pc = "done"
        /\ SeqSum(Column(overlap_kernel_type_df, "sum")) = OvUnionLength

C3_Witness ==
    /\ ov_pc = "done"
    /\ \E i, j \in 1..Len(overlap_kernel_type_df) :
          /\ overlap_kernel_type_df[i].kernel_type
                 = "COMPUTATION overlapping COMMUNICATION"
          /\ overlap_kernel_type_df[i].sum > 0
          /\ overlap_kernel_type_df[j].kernel_type = "COMMUNICATION"
          /\ overlap_kernel_type_df[j].sum > 0
    /\ \E i \in 1..(Len(ov_sweep) - 1) :
          /\ ov_sweep[i].time = ov_sweep[i + 1].time
          /\ ov_sweep[i].status < 0

(***************************************************************************)
(* Properties of _analyze_idle_time_for_stream (IdleTimeClassifier)        *)
(***************************************************************************)
\* the gap before kernel i of the sorted stream, i >= 2
IdleGap(i) ==
    gpu_kernels_s[i].ts - (gpu_kernels_s[i - 1].ts + gpu_kernels_s[i - 1].dur)
IdleLaunchedAfterPrevEnd(i) ==
    /\ ~IsNaN(gpu_kernels_s[i].ts_runtime)
    /\ gpu_kernels_s[i].ts_runtime[1]
           > gpu_kernels_s[i - 1].ts + gpu_kernels_s[i - 1].dur
IdleExpected(i) ==
    IF IdleLaunchedAfterPrevEnd(i) THEN "host_wait"
    ELSE IF IdleGap(i) < idle_args.consecutive_kernel_delay THEN "kernel_wait"
    ELSE "other"
IdleTotal(c) ==
    IF \E k \in 1..Len(idle_result) : idle_result[k].idle_category = c
    THEN idle_result[CHOOSE k \in 1..Len(idle_result) :
                         idle_result[k].idle_category = c].idle_time
    ELSE 0

\* C10: every pair of consecutive kernels with a positive gap gets one
\* category: host_wait iff the later kernel's ts_runtime > the previous
\* kernel's end, whatever the gap; otherwise kernel_wait iff gap <
\* consecutive_kernel_delay; otherwise other; and a gap enters the total of
\* the category it was given and of no other.
C10_GapClassification ==
    idle_pc = "done" =>
        /\ \A i \in 2..Len(gpu_kernels_s) :
              IdleGap(i) > 0 => gpu_kernels_s[i].idle_category = IdleExpected(i)
        /\ \A c \in Range(IdleTimeType) :
              IdleTotal(c) =
                  SeqSum([i \in 1..Len(gpu_kernels_s) |->
                             IF i >= 2 /\ gpu_kernels_s[i].idle_category = c
                             THEN IdleGap(i) ELSE 0])

C10_Witness ==
    /\ idle_pc = "done"
    /\ \E i \in 2..Len(gpu_kernels_s) :
          /\ IdleGap(i) > 0
          /\ IdleGap(i) < idle_args.consecutive_kernel_delay
          /\ IdleLaunchedAfterPrevEnd(i)
          /\ gpu_kernels_s[i].idle_category = "host_wait"
          /\ IdleTotal("host_wait") = IdleGap(i)

\* the sum of the positive gaps that were given category c
IdlePositiveGapSum(c) ==
    SeqSum([i \in 1..Len(gpu_kernels_s) |->
               IF i >= 2 /\ gpu_kernels_s[i].idle_category = c /\ IdleGap(i) > 0
               THEN IdleGap(i) ELSE 0])

\* C11: a pair of consecutive kernels whose gap is zero or negative adds
\* nothing to any category: every category total is >= 0 and equals the sum
\* of the positive gaps classified into it.
C11_NonPositiveGapsSkipped ==
    idle_pc = "done" =>
        \A c \in Range(IdleTimeType) :
            /\ IdleTotal(c) >= 0
            /\ IdleTotal(c) = IdlePositiveGapSum(c)

\* row r with its ts_runtime replaced by its own start
IdleLaunchedAtStart(r) == [r EXCEPT !.ts_runtime = Float(r.ts)]

\* C12: a kernel without a runtime event (ts_runtime NaN) gets the category
\* that the same kernel with ts_runtime = ts would get.
C12_AbsentRuntimeAsOwnStart ==
    idle_pc = "done" =>
        \A i \in 1..Len(gpu_kernels_s) :
            IsNaN(gpu_kernels_s[i].ts_runtime) =>
                gpu_kernels_s[i].idle_category =
                    IdleCategory(IdleLaunchedAtStart(gpu_kernels_s[i]),
                                 idle_args.consecutive_kernel_delay)

(***************************************************************************)
(* Properties of get_gpu_kernels_with_user_annotations                     *)
(* (AnnotationAssociator)                                                  *)
(***************************************************************************)
AnnoReturnedDf == anno_pc = "done" /\ ~anno_result.is_none
AnnoDistinctDurations ==
    \A i, j \in 1..Len(gpu_user_anno_df) :
        gpu_user_anno_df[i].dur = gpu_user_anno_df[j].dur => i = j
\* the annotations of the kernel's (pid, tid) whose interval overlaps it
AnnoOverlapping(k) ==
    {a \in Range(gpu_user_anno_df) :
        a.pid = k.pid /\ a.tid = k.tid /\ k.ts < a.end /\ a.ts < k.end}
AnnoInnermost(k) ==
    CHOOSE a \in AnnoOverlapping(k) : \A b \in AnnoOverlapping(k) : a.dur <= b.dur

\* C13: with annotations of pairwise distinct durations, every kernel is
\* assigned the name of the shortest annotation of its (pid, tid) that
\* overlaps it, and keeps the sentinel -1 when none overlaps it.
C13_InnermostAnnotationWins ==
    (AnnoReturnedDf /\ AnnoDistinctDurations) =>
        \A i \in 1..Len(anno_result.df) :
            LET k == anno_result.df[i]
            IN IF AnnoOverlapping(k) = {} THEN k.user_annotation = -1
               ELSE k.user_annotation = AnnoInnermost(k).name

C13_Witness ==
    /\ AnnoReturnedDf
    /\ AnnoDistinctDurations
    /\ \E i \in 1..Len(anno_result.df) :
          LET k == anno_result.df[i]
          IN /\ Cardinality(AnnoOverlapping(k)) >= 2
             /\ k.user_annotation = AnnoInnermost(k).name
             /\ gpu_user_anno_df[1] \in AnnoOverlapping(k)
             /\ gpu_user_anno_df[1] # AnnoInnermost(k)

\* C15: no analysis call changes a table of the Trace: rows, columns and
\* values of every rank's table stay as they were before the call.
C15_TracesUnchanged ==
    [][anno_trace' = anno_trace /\ traces' = traces]_vars

\* the kernels of the trace that some annotation of the trace overlaps
AnnoSomeOverlap ==
    \E i, j \in 1..Len(anno_trace) :
        /\ anno_trace[i].cat = "kernel"
        /\ anno_trace[j].cat = "gpu_user_annotation"
        /\ anno_trace[i].pid = anno_trace[j].pid
        /\ anno_trace[i].tid = anno_trace[j].tid
        /\ anno_trace[i].ts < anno_trace[j].end
        /\ anno_trace[j].ts < anno_trace[i].end
AnnoKernelCount ==
    Cardinality({i \in 1..Len(anno_trace) : anno_trace[i].cat = "kernel"})

ItemsInRankOrder(items) ==
    [i \in 1..Len(items) |->
        CHOOSE it \in Range(items) :
            Cardinality({o \in Range(items) : o.rank < it.rank}) = i - 1]
\* the rows of an aggregated dataframe in the order of their names
RowsInNameOrder(df) ==
    LET keys == SelectSeq(NameOrder, LAMBDA n : \E i \in 1..Len(df) : df[i].name = n)
    IN [k \in 1..Len(keys) |-> df[CHOOSE i \in 1..Len(df) : df[i].name = keys[k]]]

\* the table get_temporal_breakdown builds (line 702-721) from the ranks
\* taken so far, and the table of the same ranks taken in rank order
TbBuiltTable == [i \in 1..Len(result) |-> ResultRow(result[i])]
TbTableInRankOrder ==
    LET items == ItemsInRankOrder(traces)
    IN [i \in 1..Len(items) |->
           ResultRow([rank |-> items[i].rank]
                         @@ idle_time_per_rank(items[i].trace_df))]
TbAllRanksTaken == tb_pc \notin {"idle", "loop"} /\ tb_i = Len(traces)

\* the table of get_gpu_user_annotation_breakdown with its rows by (rank, name)
UabTableInRankOrder ==
    LET items == ItemsInRankOrder(kernel_per_rank)
    IN RenameColumns(ConcatAll([i \in 1..Len(items) |->
                                   RowsInNameOrder(items[i].df)]))
UabReturnedDf == uab_pc = "done" /\ ~uab_result.is_none

UabSortedByRankName == UabReturnedDf => uab_result.df = UabTableInRankOrder

\* C16: whatever the order of the ranks in t.traces, the table of
\* get_gpu_user_annotation_breakdown and the table of get_temporal_breakdown
\* have their rows in the order of (rank, name), respectively rank: the
\* table is the one the ranks taken in ascending order give.
C16_RankOrderIndependent ==
    /\ UabSortedByRankName
    /\ TbAllRanksTaken => TbBuiltTable = TbTableInRankOrder

\* the first item of t.traces that has no GPU-stream event
TbFirstRankWithoutKernels ==
    CHOOSE i \in 1..Len(traces) :
        /\ TbGpuRows(traces[i].rank) = {}
        /\ \A j \in 1..(i - 1) : TbGpuRows(traces[j].rank) # {}

\* C17: when a rank has no GPU-stream event the call ends in the IndexError
\* of the empty window, raised at that rank; no table is returned and no
\* row of times is recorded for that rank.
C17_EmptyWindowRaises ==
    /\ \A i \in 1..Len(result) : TbGpuRows(result[i].rank) # {}
    /\ (~TbEveryRankHasKernels /\ tb_pc \notin {"idle", "loop"}) =>
          /\ tb_pc = "IndexError"
          /\ tb_i = TbFirstRankWithoutKernels - 1
          /\ result_df = <<>>

C17_Witness ==
    /\ tb_pc = "IndexError"
    /\ Len(traces) = 2
    /\ tb_i = 1
    /\ Len(traces[2].trace_df) >= 1
    /\ TbGpuRows(traces[2].rank) = {}
    /\ result_df = <<>>

(***************************************************************************)
(* Properties of merge_kernel_intervals (IntervalMerger)                   *)
(***************************************************************************)
MergeCalled == merge_pc \notin {"idle", "call"}
\* the unit slots [t, t + 1) that the input, the output covers
MergeInputCover ==
    {t \in 0..MaxTs : \E i \in 1..Len(merge_kernels_df) :
        /\ merge_kernels_df[i].ts <= t
        /\ t < merge_kernels_df[i].ts + merge_kernels_df[i].dur}
MergeOutputCover ==
    {t \in 0..MaxTs : \E i \in 1..Len(merge_merged) :
        merge_merged[i].ts <= t /\ t < merge_merged[i].end}

\* C18: for any input (empty, unsorted, overlapping, identical) the output
\* is sorted by start, no two output intervals overlap or touch, and output
\* and input cover the same points.
C18_MergedSortedDisjointSameCover ==
    MergeCalled =>
        /\ \A i \in 1..(Len(merge_merged) - 1) :
              /\ merge_merged[i].ts <= merge_merged[i + 1].ts
              /\ merge_merged[i].end < merge_merged[i + 1].ts
        /\ MergeOutputCover = MergeInputCover
        /\ merge_kernels_df = <<>> => merge_merged = <<>>

C18_Witness ==
    /\ MergeCalled
    /\ Len(merge_kernels_df) = 3
    /\ merge_kernels_df[1].ts > merge_kernels_df[2].ts
    /\ merge_kernels_df[2].ts + merge_kernels_df[2].dur = merge_kernels_df[1].ts
    /\ merge_kernels_df[3] = merge_kernels_df[1]
    /\ merge_kernels_df[1].dur > 0
    /\ merge_kernels_df[2].dur > 0
    /\ Len(merge_merged) = 1

\* C19: for events of non-negative duration no interval of the merged
\* output is empty: every output interval has end > start.
C19_NoEmptyMergedInterval ==
    MergeCalled =>
        \A i \in 1..Len(merge_merged) :
            merge_merged[i].end > merge_merged[i].ts

(***************************************************************************)
(* Properties of the sweep of _get_gpu_kernel_type_time                    *)
(***************************************************************************)
OvTypes == ov_args.kernel_type_to_analysis
\* the flags of the categories with a merged interval over [from, to)
OvActiveMask(from, to) ==
    SeqSum([idx \in 1..Len(OvTypes) |->
               IF \E m \in Range(ov_merged[idx]) : m.ts <= from /\ to <= m.end
               THEN Pow2(idx - 1) ELSE 0])
OvTotal(label) ==
    IF \E k \in 1..Len(overlap_kernel_type_df) :
           overlap_kernel_type_df[k].kernel_type = label
    THEN overlap_kernel_type_df[
             CHOOSE k \in 1..Len(overlap_kernel_type_df) :
                 overlap_kernel_type_df[k].kernel_type = label].sum
    ELSE 0

\* C20: in every segment of positive length between consecutive rows of the
\* sweep, whatever the order of the rows of equal time, the running sum is
\* within 0..2^n-1 and is the OR of the flags of exactly the categories with
\* a merged interval over the segment; the total of every label is the
\* length of the time its combination of categories is active.
C20_RunningSumIsBitmask ==
    ov_pc = "done" =>
        /\ \A i \in 1..Len(ov_sweep) :
              (~ov_sweep[i].next_is_nan /\ ov_sweep[i].next_time > ov_sweep[i].time) =>
                  /\ ov_sweep[i].running \in 0..(Pow2(Len(OvTypes)) - 1)
                  /\ ov_sweep[i].running =
                         OvActiveMask(ov_sweep[i].time, ov_sweep[i].next_time)
        /\ \A mask \in 1..(Pow2(Len(OvTypes)) - 1) :
              OvTotal(RunningLabel(mask, OvTypes, 1)) =
                  Cardinality({t \in 0..MaxTs : OvActiveMask(t, t + 1) = mask})

\* two rows of equal time sorted so that the running sum of the first counts
\* a category that has ended, followed by a segment of positive length
C20_Witness ==
    /\ ov_pc = "done"
    /\ \E i \in 1..(Len(ov_sweep) - 1) :
          /\ ov_sweep[i].time = ov_sweep[i + 1].time
          /\ ov_sweep[i].status > 0
          /\ ov_sweep[i + 1].status < 0
          /\ ov_sweep[i].running = 3
          /\ ov_sweep[i + 1].running = 2
          /\ ov_sweep[i + 1].next_time > ov_sweep[i + 1].time
          /\ OvTotal("COMPUTATION overlapping COMMUNICATION") = 0
          /\ OvTotal("COMMUNICATION") > 0

(***************************************************************************)
(* The first-ranked group of _aggr_gpu_kernel_time                         *)
(***************************************************************************)
\* C21: with num_kernels >= 1 the group ranked first in sum-descending
\* order is never renamed to "others", allow-listed or not: its cumulative
\* sum is the least of the cumulative sums and does not exceed the quantile.
C21_FirstGroupNeverRenamed ==
    (AggrDone /\ AggrK >= 1 /\ AggrN >= 1) =>
        /\ \A i \in 1..AggrN : AggrCumsum(1) <= AggrCumsum(i)
        /\ 100 * AggrCumsum(1) <= AggrQuantile100
        /\ ~AggrIsRenamed(1)
        /\ AggrCollapsing => aggr_renamed[1].name = aggr_sorted[1].name

C21_Witness ==
    /\ AggrCollapsing
    /\ AggrK >= 1
    /\ aggr_args.duration_ratio = 0
    /\ aggr_sorted[1].name \notin AggrAllowed
    /\ aggr_sorted[1].sum > 0
    /\ 100 * AggrCumsum(1) = AggrQuantile100
    /\ AggrCollapsed = 2..AggrN
    /\ ~AggrIsRenamed(1)

====
